---- MODULE Spec2Model ----
(***************************************************************************)
(* tweet-tree: the paginated cursor stream of src/search_cursor.rs         *)
(* (CursorIter, Stream::poll_next) and the crawl loop of src/main.rs that  *)
(* folds the stream into the user table, the tweet map and the reply graph.*)
(*                                                                         *)
(* Three specifications share the definitions of the cursor stream:        *)
(*   Spec         main() from the root's age test on: one cursor stream    *)
(*                (children) driven by the                                 *)
(*                `while let Some(t) = children.next().await` loop.        *)
(*   SpecFetcher  two independent cursor streams, built with the same      *)
(*                parameters and served the same responses, each polled by *)
(*                an arbitrary consumer (one that may poll again after an  *)
(*                end-of-stream or an error).                              *)
(*   SpecPageSize one cursor stream, with or without page size, whose      *)
(*                owner polls it and may call with_page_size on it.        *)
(***************************************************************************)
EXTENDS Integers, Sequences, FiniteSets, TLC

\* ------------------------------------------------------------------ bounds
\* Number of responses the server has ready (later requests never resolve).
MaxPages == 3
\* Largest number of items in one page.
MaxItems == 2
\* Number of poll results (item, end, error) the arbitrary consumer of
\* SpecFetcher observes per stream.
MaxOut == 5

\* ------------------------------------------------------------ the thread
\* args.root_tweet_id
Root == 100

\* root.user.id: the author of the root tweet.
RootUser == "B"

\* The replies the search endpoint can deliver (tweet::Tweet: id,
\* author_id, in_reply_to_status_id).
Tweets ==
    { [id |-> 200, author_id |-> "A", in_reply_to_status_id |-> 100],
      [id |-> 201, author_id |-> "B", in_reply_to_status_id |-> 100],
      [id |-> 300, author_id |-> "A", in_reply_to_status_id |-> 200] }

\* Option<T>: None is <<>>, Some(x) is <<x>>.
None == <<>>
Some(x) == <<x>>

\* --------------------------------------------------- the server's responses
RECURSIVE SumTo(_, _)
SumTo(f, n) == IF n = 0 THEN 0 ELSE f[n] + SumTo(f, n - 1)

DistinctSeqs(S, n) ==
    { s \in [1..n -> S] : \A i, j \in 1..n : i < j => s[i] # s[j] }

SubSeqOrEmpty(s, from, to) == IF from > to THEN <<>> ELSE SubSeq(s, from, to)

\* The k-th response of a run: Err, or a page (SearchResults: data and the
\* cursors of its meta) inside a Response carrying the rate-limit status.
\* Pages chain: every page but the last response carries a continuation
\* cursor, a cursor of 0 says there is no further page.
MkScript(ok, cnt, st) ==
    LET L == Len(ok) IN
    [k \in 1..L |->
        [ok |-> ok[k],
         data |-> SubSeqOrEmpty(st, SumTo(cnt, k - 1) + 1, SumTo(cnt, k)),
         previous_cursor |-> IF ok[k] THEN k - 1 ELSE 0,
         next_cursor |-> IF ok[k] /\ k < L THEN k ELSE 0,
         rate_limit_status |-> k]]

Scripts ==
    UNION { UNION { UNION {
        { MkScript(ok, cnt, st) : st \in DistinctSeqs(Tweets, SumTo(cnt, L)) }
          : cnt \in { c \in [1..L -> 0..MaxItems] :
                        /\ \A k \in 1..L : ~ok[k] => c[k] = 0
                        /\ SumTo(c, L) <= Cardinality(Tweets) } }
          : ok \in [1..L -> BOOLEAN] }
          : L \in 1..MaxPages }

VARIABLES
    script,     \* the responses the server gives, in request order
    iters,      \* the cursor streams: [previous_cursor, next_cursor, loader, iter]
    reqs,       \* per stream: the cursor parameter of every request issued
    inflight,   \* per stream: the requests issued and not yet answered
    outs,       \* per stream: every poll result the consumer got, Pending excepted
    pc,         \* main's position
    cur,        \* main: the item `t` of the current loop iteration
    users,      \* main: users, UserId -> count
    lookups,    \* user::lookup calls made, per UserId
    tweets,     \* main: tweets, TweetId -> UserId
    graph,      \* main: graph, [nodes, edges: <<from, to>> -> weight]
    root_age,   \* main: Utc::now() - root.created_at, in hours
    advisory    \* main: whether the WARNING about the root's age was printed

vars == <<script, iters, reqs, inflight, outs, pc, cur, users, lookups, tweets, graph,
          root_age, advisory>>

Streams == DOMAIN iters

\* ------------------------------------------------- search_cursor.rs: CursorIter
\* CursorIter::new: both cursors -1, nothing loading, nothing loaded.
CursorIterNew(page_size) ==
    [page_size |-> page_size,
     previous_cursor |-> -1,
     next_cursor |-> -1,
     loader |-> None,
     iter |-> None]

\* call sending previous_cursor where it should send next_cursor.
Call_PreviousCursor(self, seq) ==
    [cursor |-> self.previous_cursor, count |-> self.page_size, seq |-> seq]

\* with_page_size that sets the size and drops loader and iter but leaves
\* the cursors as they are.
WithPageSize_KeepsCursors(self, page_size) ==
    IF self.page_size # None
    THEN [self EXCEPT !.page_size = Some(page_size),
                      !.loader = None,
                      !.iter = None]
    ELSE self

\* CursorIter::with_page_size: a stream that has a page size gets the new
\* one and is otherwise as new (cursors -1, no loader, no iter); a stream
\* without page size is returned as it is.
WithPageSize(self, page_size) ==
    IF self.page_size # None
    THEN [self EXCEPT !.page_size = Some(page_size),
                      !.previous_cursor = -1,
                      !.next_cursor = -1,
                      !.loader = None,
                      !.iter = None]
    ELSE self

\* CursorIter::call: the request for the next page carries the stored cursor
\* (and the page size, when there is one). seq is the request's ordinal: the
\* server answers the k-th request with its k-th response.
Call(self, seq) ==
    [cursor |-> self.next_cursor, count |-> self.page_size, seq |-> seq]

\* Poll<Option<Result<Response<Item>>>>
Pending == [kind |-> "pending", item |-> None]
ReadyItem(item) == [kind |-> "item", item |-> Some(item)]
ReadyEnd == [kind |-> "end", item |-> None]
ReadyErr == [kind |-> "err", item |-> None]

\* Wrap with the rate-limit status of the first response kept for every page.
Wrap_FirstRate(resp) ==
    [k \in 1..Len(resp.data) |->
        [rate_limit_status |-> script[1].rate_limit_status,
         response |-> resp.data[k]]]

\* Response::map(resp, into_inner) followed by the map closure of the new
\* iterator: every item of the page wrapped with the page's rate-limit status.
Wrap(resp) ==
    [k \in 1..Len(resp.data) |->
        [rate_limit_status |-> resp.rate_limit_status, response |-> resp.data[k]]]

\* PollLoader with the Pending branch forgetting `self.loader = Some(fut)`:
\* the taken loader is dropped, so the next poll sends a new request.
PollLoader_DropsPending(self, ready) ==
    LET fut == self.loader[1]
        resp == script[fut.seq]
    IN  IF ~(ready /\ fut.seq <= Len(script))
        THEN [self |-> [self EXCEPT !.loader = None], result |-> Pending,
              answered |-> None]
        ELSE IF resp.ok
        THEN LET items == Wrap(resp)
                 loaded == [self EXCEPT !.previous_cursor = resp.previous_cursor,
                                        !.next_cursor = resp.next_cursor,
                                        !.loader = None]
             IN  IF items # <<>>
                 THEN [self |-> [loaded EXCEPT !.iter = Some(Tail(items))],
                       result |-> ReadyItem(Head(items)),
                       answered |-> Some(fut.seq)]
                 ELSE [self |-> [loaded EXCEPT !.iter = Some(<<>>)],
                       result |-> ReadyEnd,
                       answered |-> Some(fut.seq)]
        ELSE [self |-> [self EXCEPT !.loader = None],
              result |-> ReadyErr,
              answered |-> Some(fut.seq)]

\* poll_next, the branch taken when a loader is stored (self.loader.take()).
\* ready says whether the response has arrived; a request the server has no
\* response for never resolves. answered names the request a response was
\* taken from.
PollLoader(self, ready) ==
    LET fut == self.loader[1]
        resp == script[fut.seq]
    IN  IF ~(ready /\ fut.seq <= Len(script))
        THEN [self |-> self, result |-> Pending, answered |-> None]
        ELSE IF resp.ok
        THEN LET items == Wrap(resp)
                 loaded == [self EXCEPT !.previous_cursor = resp.previous_cursor,
                                        !.next_cursor = resp.next_cursor,
                                        !.loader = None]
             IN  IF items # <<>>
                 THEN [self |-> [loaded EXCEPT !.iter = Some(Tail(items))],
                       result |-> ReadyItem(Head(items)),
                       answered |-> Some(fut.seq)]
                 ELSE [self |-> [loaded EXCEPT !.iter = Some(<<>>)],
                       result |-> ReadyEnd,
                       answered |-> Some(fut.seq)]
        ELSE [self |-> [self EXCEPT !.loader = None],
              result |-> ReadyErr,
              answered |-> Some(fut.seq)]

\* poll_next, the tail: store a new loader and poll again.
LoadAndPoll(self, nreq, ready) ==
    LET req == Call(self, nreq + 1)
        r == PollLoader([self EXCEPT !.loader = Some(req)], ready)
    IN  [self |-> r.self, result |-> r.result, answered |-> r.answered,
         call |-> Some(req)]

\* PollNext without the `else if self.next_cursor == 0` arm: an empty buffer
\* always loads another page.
PollNext_NoExhaustCheck(self, nreq, ready) ==
    IF self.loader # None
    THEN LET r == PollLoader(self, ready)
         IN  [self |-> r.self, result |-> r.result, answered |-> r.answered,
              call |-> None]
    ELSE IF self.iter # None /\ self.iter[1] # <<>>
    THEN [self |-> [self EXCEPT !.iter = Some(Tail(self.iter[1]))],
          result |-> ReadyItem(Head(self.iter[1])),
          answered |-> None, call |-> None]
    ELSE LoadAndPoll(self, nreq, ready)

\* PollNext that starts loading the next page while it hands out the last
\* buffered item (prefetching).
PollNext_Prefetch(self, nreq, ready) ==
    IF self.loader # None /\ (self.iter = None \/ self.iter[1] = <<>>)
    THEN LET r == PollLoader(self, ready)
         IN  [self |-> r.self, result |-> r.result, answered |-> r.answered,
              call |-> None]
    ELSE IF self.iter # None /\ self.iter[1] # <<>>
    THEN LET prefetch == Len(self.iter[1]) = 1 /\ self.next_cursor # 0
                         /\ self.loader = None
             req == Call(self, nreq + 1)
         IN  [self |-> [self EXCEPT !.iter = Some(Tail(self.iter[1])),
                                    !.loader = IF prefetch THEN Some(req) ELSE @],
              result |-> ReadyItem(Head(self.iter[1])),
              answered |-> None,
              call |-> IF prefetch THEN Some(req) ELSE None]
    ELSE IF self.iter # None /\ self.next_cursor = 0
    THEN [self |-> self, result |-> ReadyEnd, answered |-> None, call |-> None]
    ELSE LoadAndPoll(self, nreq, ready)

\* Stream::poll_next. nreq is the number of requests this stream has issued.
PollNext(self, nreq, ready) ==
    IF self.loader # None
    THEN LET r == PollLoader(self, ready)
         IN  [self |-> r.self, result |-> r.result, answered |-> r.answered,
              call |-> None]
    ELSE IF self.iter # None /\ self.iter[1] # <<>>
    THEN [self |-> [self EXCEPT !.iter = Some(Tail(self.iter[1]))],
          result |-> ReadyItem(Head(self.iter[1])),
          answered |-> None, call |-> None]
    ELSE IF self.iter # None /\ self.next_cursor = 0
    THEN [self |-> self, result |-> ReadyEnd, answered |-> None, call |-> None]
    ELSE LoadAndPoll(self, nreq, ready)

\* One poll of stream i by its consumer: the stream's new state, the request
\* it sent (if any), the response it took (if any), and what the consumer got.
Advance(i, r) ==
    /\ iters' = [iters EXCEPT ![i] = r.self]
    /\ reqs' = [reqs EXCEPT
                  ![i] = IF r.call = None THEN @ ELSE Append(@, r.call[1].cursor)]
    /\ inflight' = [inflight EXCEPT
                  ![i] = (@ \cup { c.seq : c \in { r.call[k] : k \in DOMAIN r.call } })
                         \ { r.answered[k] : k \in DOMAIN r.answered }]
    /\ outs' = [outs EXCEPT
                  ![i] = IF r.result.kind = "pending" THEN @ ELSE Append(@, r.result)]

\* ------------------------------------------------------- main.rs: the graph
\* DiGraphMap::new
EmptyGraph == [nodes |-> {}, edges |-> <<>>]

\* DiGraphMap::add_node
AddNode(g, n) == [g EXCEPT !.nodes = @ \cup {n}]

\* add_edge with the endpoints swapped: the edge runs child -> parent.
AddEdge_Reversed(g, a, b, weight) ==
    [nodes |-> g.nodes \cup {a, b},
     edges |-> [e \in DOMAIN g.edges \cup {<<b, a>>} |->
                  IF e = <<b, a>> THEN weight ELSE g.edges[e]]]

\* add_edge that does not create the source node a when it is missing.
AddEdge_NoLazyParent(g, a, b, weight) ==
    [nodes |-> g.nodes \cup {b},
     edges |-> [e \in DOMAIN g.edges \cup {<<a, b>>} |->
                  IF e = <<a, b>> THEN weight ELSE g.edges[e]]]

\* add_edge that links b only to a source node already in the graph, and
\* otherwise adds b alone.
AddEdge_KnownParentOnly(g, a, b, weight) ==
    IF a \in g.nodes
    THEN [nodes |-> g.nodes \cup {b},
          edges |-> [e \in DOMAIN g.edges \cup {<<a, b>>} |->
                       IF e = <<a, b>> THEN weight ELSE g.edges[e]]]
    ELSE [g EXCEPT !.nodes = @ \cup {b}]

\* add_edge of an undirected graph map: the edge runs both ways.
AddEdge_Undirected(g, a, b, weight) ==
    [nodes |-> g.nodes \cup {a, b},
     edges |-> [e \in DOMAIN g.edges \cup {<<a, b>>, <<b, a>>} |->
                  IF e \in {<<a, b>>, <<b, a>>} THEN weight ELSE g.edges[e]]]

\* DiGraphMap::add_edge(a, b, weight): both endpoints become nodes if they
\* are not yet, the edge a -> b is inserted, or its weight replaced.
AddEdge(g, a, b, weight) ==
    [nodes |-> g.nodes \cup {a, b},
     edges |-> [e \in DOMAIN g.edges \cup {<<a, b>>} |->
                  IF e = <<a, b>> THEN weight ELSE g.edges[e]]]

\* HashMap::insert
Insert(m, k, v) == [x \in DOMAIN m \cup {k} |-> IF x = k THEN v ELSE m[x]]

\* ---------------------------------------------------------- main.rs: main
\* The recent-search window in days: the `>= 7` of main's age test.
RetentionDays == 7

\* Duration::num_days of a non-negative duration given in hours: whole days.
NumDays(hours) == hours \div 24

\* The ages of the root tweet tried: an hour less than the window, the
\* window exactly, an hour more.
RootAges ==
    { RetentionDays * 24 - 1, RetentionDays * 24, RetentionDays * 24 + 1 }

\* main after tweet::show: the root tweet has been fetched, nothing is in the
\* tables, the cursor stream is as CursorIter::new leaves it (building it
\* sends nothing).
Init ==
    /\ root_age \in RootAges
    /\ advisory = FALSE
    /\ script \in Scripts
    /\ iters = [i \in {1} |-> CursorIterNew(None)]
    /\ reqs = [i \in {1} |-> <<>>]
    /\ inflight = [i \in {1} |-> {}]
    /\ outs = [i \in {1} |-> <<>>]
    /\ pc = "age_check"
    /\ cur = None
    /\ users = <<>>
    /\ lookups = [u \in {} |-> 0]
    /\ tweets = <<>>
    /\ graph = EmptyGraph

\* user::lookup is called once more for id.
Lookup(id) == Insert(lookups, id, IF id \in DOMAIN lookups THEN lookups[id] + 1 ELSE 1)

\* `if Utc::now().signed_duration_since(root.created_at).num_days() >= 7`:
\* the WARNING is printed or not, and main goes on either way.
AgeCheck ==
    /\ pc = "age_check"
    /\ advisory' = (NumDays(root_age) >= RetentionDays)
    /\ pc' = "root_user"
    /\ UNCHANGED <<root_age, script, iters, reqs, inflight, outs, cur, users,
                   lookups, tweets, graph>>

\* RootUserStep entering the root's author with count 0.
RootUserStep_CountZero ==
    /\ pc = "root_user"
    /\ lookups' = Lookup(RootUser)
    /\ \E found \in BOOLEAN :
         IF found
         THEN /\ users' = Insert(users, RootUser, 0)
              /\ tweets' = Insert(tweets, Root, RootUser)
              /\ graph' = AddNode(graph, Root)
              /\ pc' = "next"
         ELSE /\ pc' = "failed"
              /\ UNCHANGED <<users, tweets, graph>>
    /\ UNCHANGED <<root_age, advisory, script, iters, reqs, inflight, outs, cur>>

\* users.insert(root_user_id, (User::new(..).await?, 1)); tweets.insert(root);
\* graph.add_node(root). User::new fails when the lookup fails or the profile
\* colour does not parse; the profile itself is not modelled.
RootUserStep ==
    /\ pc = "root_user"
    /\ lookups' = Lookup(RootUser)
    /\ \E found \in BOOLEAN :
         IF found
         THEN /\ users' = Insert(users, RootUser, 1)
              /\ tweets' = Insert(tweets, Root, RootUser)
              /\ graph' = AddNode(graph, Root)
              /\ pc' = "next"
         ELSE /\ pc' = "failed"
              /\ UNCHANGED <<users, tweets, graph>>
    /\ UNCHANGED <<root_age, advisory, script, iters, reqs, inflight, outs, cur>>

\* ChildrenNext without the `?` of `let t = t?`: an error is dropped and the
\* loop asks for the next item.
ChildrenNext_IgnoresErr ==
    /\ pc = "next"
    /\ \E ready \in BOOLEAN :
         LET r == PollNext(iters[1], Len(reqs[1]), ready) IN
         /\ Advance(1, r)
         /\ pc' = CASE r.result.kind = "pending" -> "next"
                    [] r.result.kind = "item" -> "body"
                    [] r.result.kind = "end" -> "done"
                    [] r.result.kind = "err" -> "next"
         /\ cur' = IF r.result.kind = "item" THEN Some(r.result.item[1].response)
                   ELSE None
    /\ UNCHANGED <<root_age, advisory, script, users, lookups, tweets, graph>>

\* One poll of `children.next().await`, and `let t = t?`: Pending suspends
\* main until it is polled again, an item enters the loop body, None leaves
\* the loop, an error returns from main.
ChildrenNext ==
    /\ pc = "next"
    /\ \E ready \in BOOLEAN :
         LET r == PollNext(iters[1], Len(reqs[1]), ready) IN
         /\ Advance(1, r)
         /\ pc' = CASE r.result.kind = "pending" -> "next"
                    [] r.result.kind = "item" -> "body"
                    [] r.result.kind = "end" -> "done"
                    [] r.result.kind = "err" -> "failed"
         /\ cur' = IF r.result.kind = "item" THEN Some(r.result.item[1].response)
                   ELSE None
    /\ UNCHANGED <<root_age, advisory, script, users, lookups, tweets, graph>>

\* ResolveAuthor without the users.get_mut hit: every item looks its author
\* up and inserts a fresh entry.
ResolveAuthor_NoCache ==
    /\ pc = "body"
    /\ LET author_id == cur[1].author_id IN
       /\ lookups' = Lookup(author_id)
       /\ \E found \in BOOLEAN :
            IF found
            THEN /\ users' = Insert(users, author_id, 0 + 1)
                 /\ pc' = "insert"
            ELSE /\ pc' = "failed"
                 /\ UNCHANGED users
    /\ UNCHANGED <<root_age, advisory, script, iters, reqs, inflight, outs, cur, tweets, graph>>

\* ResolveAuthor that looks a new author up but never stores the entry.
ResolveAuthor_SkipsInsert ==
    /\ pc = "body"
    /\ LET author_id == cur[1].author_id IN
       IF author_id \in DOMAIN users
       THEN /\ users' = [users EXCEPT ![author_id] = @ + 1]
            /\ pc' = "insert"
            /\ UNCHANGED lookups
       ELSE /\ lookups' = Lookup(author_id)
            /\ \E found \in BOOLEAN :
                 /\ pc' = IF found THEN "insert" ELSE "failed"
                 /\ UNCHANGED users
    /\ UNCHANGED <<root_age, advisory, script, iters, reqs, inflight, outs, cur, tweets, graph>>

\* The loop body up to `*count += 1`: the author's entry is found in users,
\* or made by User::new (which can fail) with count 0; then the count is
\* incremented.
ResolveAuthor ==
    /\ pc = "body"
    /\ LET author_id == cur[1].author_id IN
       IF author_id \in DOMAIN users
       THEN /\ users' = [users EXCEPT ![author_id] = @ + 1]
            /\ pc' = "insert"
            /\ UNCHANGED lookups
       ELSE /\ lookups' = Lookup(author_id)
            /\ \E found \in BOOLEAN :
                 IF found
                 THEN /\ users' = Insert(users, author_id, 0 + 1)
                      /\ pc' = "insert"
                 ELSE /\ pc' = "failed"
                      /\ UNCHANGED users
    /\ UNCHANGED <<root_age, advisory, script, iters, reqs, inflight, outs, cur, tweets, graph>>

\* InsertEdge with the conversion checked after the inserts: a failed
\* conversion leaves the tweet and its edge in.
InsertEdge_InsertsThenFails ==
    /\ pc = "insert"
    /\ \E converted \in BOOLEAN :
         LET t == cur[1]
             prev == t.in_reply_to_status_id
         IN  /\ tweets' = Insert(tweets, t.id, t.author_id)
             /\ graph' = AddEdge(graph, prev, t.id, t.author_id)
             /\ pc' = IF converted THEN "next" ELSE "failed"
             /\ cur' = IF converted THEN None ELSE cur
    /\ UNCHANGED <<root_age, advisory, script, iters, reqs, inflight, outs, users, lookups>>

\* InsertEdge without `tweets.insert(t.id, author_id)`.
InsertEdge_SkipsTweetsInsert ==
    /\ pc = "insert"
    /\ \E converted \in BOOLEAN :
         IF converted
         THEN LET t == cur[1]
                  prev == t.in_reply_to_status_id
              IN  /\ graph' = AddEdge(graph, prev, t.id, t.author_id)
                  /\ pc' = "next"
                  /\ cur' = None
                  /\ UNCHANGED tweets
         ELSE /\ pc' = "failed"
              /\ UNCHANGED <<tweets, graph, cur>>
    /\ UNCHANGED <<root_age, advisory, script, iters, reqs, inflight, outs, users, lookups>>

\* The rest of the loop body: try_into()? (which can fail), tweets.insert,
\* graph.add_edge(prev, t.id, author_id).
InsertEdge ==
    /\ pc = "insert"
    /\ \E converted \in BOOLEAN :
         IF converted
         THEN LET t == cur[1]
                  prev == t.in_reply_to_status_id
              IN  /\ tweets' = Insert(tweets, t.id, t.author_id)
                  /\ graph' = AddEdge(graph, prev, t.id, t.author_id)
                  /\ pc' = "next"
                  /\ cur' = None
         ELSE /\ pc' = "failed"
              /\ UNCHANGED <<tweets, graph, cur>>
    /\ UNCHANGED <<root_age, advisory, script, iters, reqs, inflight, outs, users, lookups>>

Next == AgeCheck \/ RootUserStep \/ ChildrenNext \/ ResolveAuthor \/ InsertEdge

Spec == Init /\ [][Next]_vars

\* ------------------------------------- two cursor streams, arbitrary consumers
InitFetcher ==
    /\ root_age = 0
    /\ advisory = FALSE
    /\ script \in Scripts
    /\ iters = [i \in {1, 2} |-> CursorIterNew(None)]
    /\ reqs = [i \in {1, 2} |-> <<>>]
    /\ inflight = [i \in {1, 2} |-> {}]
    /\ outs = [i \in {1, 2} |-> <<>>]
    /\ pc = "polling"
    /\ cur = None
    /\ users = <<>>
    /\ lookups = [u \in {} |-> 0]
    /\ tweets = <<>>
    /\ graph = EmptyGraph

\* The consumer of stream i polls it once more, whatever it got before.
Poll(i) ==
    /\ Len(outs[i]) < MaxOut
    /\ \E ready \in BOOLEAN :
         Advance(i, PollNext(iters[i], Len(reqs[i]), ready))
    /\ UNCHANGED <<root_age, advisory, script, pc, cur, users, lookups, tweets, graph>>

NextFetcher == \E i \in Streams : Poll(i)

SpecFetcher == InitFetcher /\ [][NextFetcher]_vars

\* ------------------------- one cursor stream whose owner may set the page size
\* The page sizes given to CursorIter::new (None: the call takes no page
\* size) and to with_page_size.
InitialPageSizes == { None, Some(10) }
NewPageSizes == { 20 }

InitPageSize ==
    /\ root_age = 0
    /\ advisory = FALSE
    /\ script \in Scripts
    /\ \E ps \in InitialPageSizes : iters = [i \in {1} |-> CursorIterNew(ps)]
    /\ reqs = [i \in {1} |-> <<>>]
    /\ inflight = [i \in {1} |-> {}]
    /\ outs = [i \in {1} |-> <<>>]
    /\ pc = "polling"
    /\ cur = None
    /\ users = <<>>
    /\ lookups = [u \in {} |-> 0]
    /\ tweets = <<>>
    /\ graph = EmptyGraph

\* The owner of stream i replaces it by with_page_size(n) of it. A loader
\* that is dropped takes its request with it. The owner does so only while
\* fewer than MaxPages requests have been sent.
SetPageSize(i) ==
    /\ Len(reqs[i]) < MaxPages
    /\ \E n \in NewPageSizes :
         /\ iters' = [iters EXCEPT ![i] = WithPageSize(@, n)]
         /\ inflight' = [inflight EXCEPT
                           ![i] = IF WithPageSize(iters[i], n).loader = None
                                  THEN {} ELSE @]
    /\ UNCHANGED <<root_age, advisory, script, reqs, outs, pc, cur, users,
                   lookups, tweets, graph>>

NextPageSize ==
    \/ \E i \in Streams : Poll(i)
    \/ \E i \in Streams : SetPageSize(i)

SpecPageSize == InitPageSize /\ [][NextPageSize]_vars

\* ===================================================== the cursor stream
ErrorFree == \A k \in 1..Len(script) : script[k].ok

RECURSIVE Flatten(_, _)
\* The items of the first n responses, wrapped, in page order.
Flatten(sc, n) ==
    IF n = 0 THEN <<>>
    ELSE Flatten(sc, n - 1) \o (IF sc[n].ok THEN Wrap(sc[n]) ELSE <<>>)

HasEnd(o) == \E k \in 1..Len(o) : o[k].kind = "end"
FirstEnd(o) == CHOOSE k \in 1..Len(o) :
                  o[k].kind = "end" /\ \A j \in 1..(k - 1) : o[j].kind # "end"

\* The items a consumer got, in the order it got them.
RECURSIVE ItemsOf(_)
ItemsOf(o) ==
    IF o = <<>> THEN <<>>
    ELSE (IF Head(o).kind = "item" THEN Head(o).item ELSE <<>>) \o ItemsOf(Tail(o))

\* In this step stream i took the server's n-th response.
Took(i, n) ==
    /\ n \notin inflight'[i]
    /\ n \in inflight[i] \/ (Len(reqs[i]) < n /\ n <= Len(reqs'[i]))

\* The buffer of a page without continuation cursor has been drained.
Drained(f) == f.iter = Some(<<>>) /\ f.next_cursor = 0

\* C1: when all pages are fetched without error, what a stream yields before
\* its first end-of-stream is the concatenation of all pages' items in page
\* order and in-page order, the end-of-stream coming after the items of the
\* page without continuation cursor (the last of the chain).
C1_Concatenation ==
    \A i \in Streams :
        (ErrorFree /\ HasEnd(outs[i])) =>
            SubSeqOrEmpty(outs[i], 1, FirstEnd(outs[i]) - 1)
                = [k \in 1..Len(Flatten(script, Len(script))) |->
                     ReadyItem(Flatten(script, Len(script))[k])]

\* C2: the poll that receives a page with no items and a continuation cursor
\* does not report end-of-stream, and end-of-stream is only ever reported
\* when the last page received carried no continuation cursor.
C2_EmptyPageContinues ==
    [][\A i \in Streams :
         /\ \A n \in 1..Len(script) :
              (Took(i, n) /\ script[n].ok /\ script[n].data = <<>>
                 /\ script[n].next_cursor # 0)
                => outs'[i] # Append(outs[i], ReadyEnd)
         /\ outs'[i] = Append(outs[i], ReadyEnd) => iters'[i].next_cursor = 0
      ]_vars

\* C3: once the buffer of a page without continuation cursor is drained,
\* every later poll yields end-of-stream, sends no request and leaves the
\* stream's fields as they are.
C3_ExhaustedTerminal ==
    [][\A i \in Streams :
         Drained(iters[i]) =>
            /\ iters'[i] = iters[i]
            /\ reqs'[i] = reqs[i]
            /\ inflight'[i] = inflight[i]
            /\ outs'[i] = outs[i] \/ outs'[i] = Append(outs[i], ReadyEnd)
      ]_vars

\* A one-page run: both items yielded, then end-of-stream twice.
C3_Witness ==
    /\ Len(script) = 1 /\ script[1].ok /\ Len(script[1].data) = 2
    /\ Drained(iters[1])
    /\ outs[1] = <<ReadyItem(Wrap(script[1])[1]), ReadyItem(Wrap(script[1])[2]),
                   ReadyEnd, ReadyEnd>>

\* C9: two streams built with the same parameters and served the same
\* responses give their consumers the same results in the same order, however
\* their polls (and the polls that find the response not yet there)
\* interleave: of their two result sequences one is a prefix of the other.
C9_Deterministic ==
    \A i, j \in Streams :
        \A k \in 1..Len(outs[i]) :
            k <= Len(outs[j]) => outs[i][k] = outs[j][k]

\* The two-page fixture: both streams yielded page 1's and page 2's items
\* and reported end-of-stream.
C9_Witness ==
    /\ Len(script) = 2 /\ ErrorFree
    /\ script[1].data # <<>> /\ script[2].data # <<>>
    /\ Streams = {1, 2}
    /\ outs[1] = outs[2]
    /\ HasEnd(outs[1])
    /\ Len(ItemsOf(outs[1])) = Len(script[1].data) + Len(script[2].data)

\* C10: a stream never has more than one request unanswered, and it sends a
\* request only when none is pending and no buffered item remains.
C10_OneFetchInFlight ==
    [][\A i \in Streams :
         /\ Cardinality(inflight[i]) <= 1
         /\ Cardinality(inflight'[i]) <= 1
         /\ reqs'[i] # reqs[i] =>
              /\ iters[i].loader = None
              /\ inflight[i] = {}
              /\ iters[i].iter = None \/ iters[i].iter = Some(<<>>)
      ]_vars

\* The second page is being fetched: page 1's items are drained and request
\* 2 is the only one unanswered.
C10_Witness ==
    /\ Len(reqs[1]) = 2
    /\ inflight[1] = {2}
    /\ iters[1].loader # None
    /\ iters[1].iter = Some(<<>>)
    /\ Len(ItemsOf(outs[1])) >= 1

\* ============================================================ the crawl
ErrSeen(o) == \E k \in 1..Len(o) : o[k].kind = "err"

\* The tweets the stream has handed to main's loop.
Delivered == { ItemsOf(outs[1])[k].response : k \in 1..Len(ItemsOf(outs[1])) }

InDegree(g, n) == Cardinality({ e \in DOMAIN g.edges : e[2] = n })

\* C4: a failed page fetch is delivered as an error by the poll that takes
\* the failed response, and once main has been handed an error no request is
\* sent and the graph, the tweet map and the user table stay as they are.
C4_FetchErrorHalts ==
    [][\A i \in Streams :
         /\ \A n \in 1..Len(script) :
              (Took(i, n) /\ ~script[n].ok)
                => outs'[i] = Append(outs[i], ReadyErr)
         /\ ErrSeen(outs[i]) =>
              /\ reqs' = reqs
              /\ inflight' = inflight
              /\ graph' = graph
              /\ tweets' = tweets
              /\ users' = users
              /\ pc' = "failed"
      ]_vars

\* The second page fetch failed after replies of page 1 were folded in; the
\* server's third response was never asked for.
C4_Witness ==
    /\ pc = "failed"
    /\ ErrSeen(outs[1])
    /\ Len(script) = 3 /\ ~script[2].ok
    /\ Len(reqs[1]) = 2
    /\ DOMAIN graph.edges # {}

\* Every delivered tweet replies to the root or to a delivered tweet, none
\* has the root's id, and no id comes with two different parents.
ParentClosed ==
    /\ \A t \in Delivered :
         \/ t.in_reply_to_status_id = Root
         \/ \E u \in Delivered : u.id = t.in_reply_to_status_id
    /\ \A t \in Delivered : t.id # Root
    /\ \A t, u \in Delivered :
         t.id = u.id => t.in_reply_to_status_id = u.in_reply_to_status_id

InDegreeOk ==
    \A n \in graph.nodes : InDegree(graph, n) = IF n = Root THEN 0 ELSE 1

\* C5 as stated: after any error-free stream has been processed, every node
\* but the root has in-degree 1 and the root has in-degree 0.
C5_InDegree_Original == pc = "done" => InDegreeOk

\* C5, amended: the same, for streams in which every tweet replies to the
\* root or to a tweet of the stream.
C5_InDegree == (pc = "done" /\ ParentClosed) => InDegreeOk

\* The whole thread was processed, the reply 300 before its parent 200.
C5_Witness ==
    /\ pc = "done"
    /\ ParentClosed
    /\ Delivered = Tweets
    /\ \E j, k \in 1..Len(ItemsOf(outs[1])) :
         /\ j < k
         /\ ItemsOf(outs[1])[j].response.id = 300
         /\ ItemsOf(outs[1])[k].response.id = 200

\* The number of delivered tweets written by a.
CountBy(a) == Cardinality({ t \in Delivered : t.author_id = a })

Authors == { t.author_id : t \in Delivered }

\* C6 as stated: after a stream with N >= 1 tweets of an author has been
\* processed, that author was looked up exactly once and has count N.
C6_OneLookup_Original ==
    pc = "done" =>
        \A a \in Authors :
            /\ a \in DOMAIN lookups /\ lookups[a] = 1
            /\ a \in DOMAIN users /\ users[a] = CountBy(a)

\* C6, amended: looked up exactly once, and the count is N for every author
\* but the root tweet's, whose count is N + 1.
C6_OneLookup ==
    pc = "done" =>
        \A a \in Authors :
            /\ a \in DOMAIN lookups /\ lookups[a] = 1
            /\ a \in DOMAIN users
            /\ users[a] = CountBy(a) + (IF a = RootUser THEN 1 ELSE 0)

\* Both tweets of A were processed: one lookup (the second tweet hit the
\* table), count 2.
C6_Witness ==
    /\ pc = "done"
    /\ "A" \in Authors /\ "A" # RootUser
    /\ CountBy("A") = 2
    /\ users["A"] = 2
    /\ lookups["A"] = 1

\* C7: after an error-free crawl the nodes are the root, the ids and the
\* parent ids of the delivered tweets, and the edges are exactly
\* parent -> id for each of them.
C7_GraphShape ==
    pc = "done" =>
        /\ graph.nodes = {Root} \cup { t.id : t \in Delivered }
                                \cup { t.in_reply_to_status_id : t \in Delivered }
        /\ DOMAIN graph.edges = { <<t.in_reply_to_status_id, t.id>> : t \in Delivered }

\* The scenario of the design: root 100, tweets 200, 201 and 300.
C7_Witness ==
    /\ pc = "done"
    /\ Root = 100
    /\ { t.id : t \in Delivered } = {200, 201, 300}
    /\ graph.nodes = {100, 200, 201, 300}
    /\ DOMAIN graph.edges = { <<100, 200>>, <<100, 201>>, <<200, 300>> }

\* What a set of tweets determines, whatever order they come in.
ExpectedGraph(S) ==
    [nodes |-> {Root} \cup { t.id : t \in S } \cup { t.in_reply_to_status_id : t \in S },
     edges |-> [e \in { <<t.in_reply_to_status_id, t.id>> : t \in S } |->
                  (CHOOSE t \in S : e = <<t.in_reply_to_status_id, t.id>>).author_id]]
ExpectedTweets(S) ==
    [x \in {Root} \cup { t.id : t \in S } |->
        IF x = Root THEN RootUser ELSE (CHOOSE t \in S : t.id = x).author_id]
ExpectedUsers(S) ==
    [a \in {RootUser} \cup { t.author_id : t \in S } |->
        Cardinality({ t \in S : t.author_id = a }) + (IF a = RootUser THEN 1 ELSE 0)]

\* C8: the final graph (nodes, edges, labels), tweet map and counts are
\* determined by the set of tweets delivered, not by their order or paging.
C8_OrderIndependent ==
    pc = "done" =>
        /\ graph = ExpectedGraph(Delivered)
        /\ tweets = ExpectedTweets(Delivered)
        /\ users = ExpectedUsers(Delivered)

\* A reply was processed before the tweet it replies to, which came on a
\* later page.
C8_Witness ==
    /\ pc = "done"
    /\ Len(script) >= 2
    /\ \E t \in { x \in Tweets : x.id = 300 } :
         /\ Len(script[1].data) >= 1 /\ script[1].data[1] = t
    /\ \E u \in Delivered : u.id = 200
    /\ <<200, 300>> \in DOMAIN graph.edges

\* ================================================ requests, errors, envelopes
\* The responses before the k-th that were pages.
OkBefore(k) == { j \in 1..(k - 1) : j <= Len(script) /\ script[j].ok }

\* The largest element of a non-empty set of numbers.
Latest(S) == CHOOSE j \in S : \A m \in S : m <= j

\* C11: the first request carries the cursor the constructor stored (-1, no
\* continuation token of any page), and every later request carries the
\* next_cursor of the latest page received before it (still -1 while no page
\* has been received).
C11_RequestCursor ==
    \A i \in Streams :
        \A k \in 1..Len(reqs[i]) :
            reqs[i][k] = IF OkBefore(k) = {}
                         THEN CursorIterNew(None).next_cursor
                         ELSE script[Latest(OkBefore(k))].next_cursor

\* Three pages were requested: without token, with page 1's, with page 2's.
C11_Witness ==
    /\ Len(script) = 3 /\ ErrorFree
    /\ reqs[1] = <<-1, script[1].next_cursor, script[2].next_cursor>>
    /\ script[1].next_cursor # script[2].next_cursor

\* C12: once a poll has returned a page-fetch error, no later poll of that
\* stream sends a request.
C12_NoRetry ==
    [][\A i \in Streams : ErrSeen(outs[i]) => reqs'[i] = reqs[i]]_vars

\* C14: every item yielded carries the rate-limit status of the response
\* whose page holds that item.
C14_RateEnvelope ==
    \A i \in Streams :
        \A k \in 1..Len(outs[i]) :
            outs[i][k].kind = "item" =>
                \E n \in 1..Len(script) :
                    /\ script[n].ok
                    /\ \E m \in 1..Len(script[n].data) :
                         script[n].data[m] = outs[i][k].item[1].response
                    /\ outs[i][k].item[1].rate_limit_status
                         = script[n].rate_limit_status

\* Items of page 1 and of page 2 were yielded, the last one with page 2's
\* status.
C14_Witness ==
    /\ Len(script) >= 2 /\ script[1].ok /\ script[2].ok
    /\ script[1].data # <<>> /\ script[2].data # <<>>
    /\ Len(ItemsOf(outs[1])) = Len(script[1].data) + 1
    /\ ItemsOf(outs[1])[Len(ItemsOf(outs[1]))]
         = [rate_limit_status |-> script[2].rate_limit_status,
            response |-> script[2].data[1]]
    /\ script[2].rate_limit_status # script[1].rate_limit_status

\* ================================================== the builder's tables
\* C13: an error raised while a tweet is processed (failed author lookup,
\* failed conversion) ends the crawl: the failing step inserts neither the
\* tweet nor its edge and sends no page request, and after it nothing
\* changes any more (no tweet processed, no request, no end reached).
C13_BuilderErrorAborts ==
    [][/\ pc = "failed" => vars' = vars
       /\ (pc \in {"body", "insert"} /\ pc' = "failed") =>
            /\ graph' = graph
            /\ tweets' = tweets
            /\ reqs' = reqs
            /\ cur' # None
            /\ <<cur'[1].in_reply_to_status_id, cur'[1].id>> \notin DOMAIN graph'.edges
            /\ cur'[1].id \notin DOMAIN tweets'
      ]_vars

\* A tweet failed after another had been folded in, with a response of the
\* server never asked for.
C13_Witness ==
    /\ pc = "failed"
    /\ cur # None
    /\ DOMAIN graph.edges # {}
    /\ Len(reqs[1]) < Len(script)

\* C15: every edge parent -> child carries the author the tweet map records
\* for the child, and every tweet of the map is a node of the graph.
C15_EdgeLabels ==
    /\ \A e \in DOMAIN graph.edges :
         e[2] \in DOMAIN tweets /\ graph.edges[e] = tweets[e[2]]
    /\ \A p \in DOMAIN tweets : p \in graph.nodes

\* Reply 300 is in, under a parent node 200 that has not been visited.
C15_Witness ==
    /\ <<200, 300>> \in DOMAIN graph.edges
    /\ 200 \notin DOMAIN tweets
    /\ 300 \in DOMAIN tweets
    /\ graph.edges[<<200, 300>>] = "A"

AuthorsSeen == {RootUser} \cup { t.author_id : t \in Delivered }

\* C16: no step removes an author, a tweet, a node or an edge or lowers a
\* count, and after each completed step of the loop the user table has an
\* entry for exactly the authors seen so far, the root's included.
C16_Monotone ==
    [][/\ DOMAIN users \subseteq DOMAIN users'
       /\ \A a \in DOMAIN users : users'[a] >= users[a]
       /\ DOMAIN tweets \subseteq DOMAIN tweets'
       /\ graph.nodes \subseteq graph'.nodes
       /\ DOMAIN graph.edges \subseteq DOMAIN graph'.edges
       /\ pc' \in {"next", "insert", "done"} => DOMAIN users' = AuthorsSeen'
      ]_vars

\* Both authors are in the table after the whole thread.
C16_Witness ==
    /\ pc = "done"
    /\ Delivered = Tweets
    /\ DOMAIN users = {"A", "B"}
    /\ users["A"] = 2

\* The nodes one edge away from a node of S.
Succ(g, S) == { e[2] : e \in { x \in DOMAIN g.edges : x[1] \in S } }

RECURSIVE ReachN(_, _, _)
\* The nodes 1..n edges away from a node of S.
ReachN(g, S, n) ==
    IF n = 0 THEN {} ELSE Succ(g, S) \cup ReachN(g, Succ(g, S), n - 1)

Acyclic(g) == \A n \in g.nodes : n \notin ReachN(g, {n}, Cardinality(g.nodes))

Attributed ==
    Delivered \ (IF cur # None /\ (\/ pc = "body"
                                   \/ pc = "failed" /\ cur[1].author_id \notin DOMAIN users)
                 THEN {cur[1]} ELSE {})

RECURSIVE SumCounts(_, _)
SumCounts(f, S) ==
    IF S = {} THEN 0
    ELSE LET a == CHOOSE x \in S : TRUE IN f[a] + SumCounts(f, S \ {a})

\* C20: the root's author is in the table before any reply is delivered; the
\* counts sum to 1 plus the number of attributed tweets, and the root
\* author's count is 1 plus the number of attributed tweets they wrote.
C20_CountSum ==
    /\ (Delivered # {} \/ pc \in {"next", "body", "insert", "done"})
         => RootUser \in DOMAIN users
    /\ RootUser \in DOMAIN users =>
         /\ SumCounts(users, DOMAIN users) = 1 + Cardinality(Attributed)
         /\ users[RootUser]
              = 1 + Cardinality({ t \in Attributed : t.author_id = RootUser })

\* The root's author has written one of the replies processed so far.
C20_Witness ==
    /\ pc = "next"
    /\ RootUser \in DOMAIN users
    /\ users[RootUser] = 2
    /\ Cardinality(Attributed) >= 2

\* ============================================================ the advisory
\* C18: the WARNING is printed exactly when the root's age exceeds the
\* window of 7 days (not at 7 days or less), and the age test changes nothing
\* else: main goes on to the root's author whatever the test says.
C18_Advisory ==
    [][pc = "age_check" =>
         /\ advisory' = (root_age > RetentionDays * 24)
         /\ pc' = "root_user"
         /\ UNCHANGED <<script, iters, reqs, inflight, outs, cur, users,
                        lookups, tweets, graph>>
      ]_vars

\* ============================================================ the page size
\* C19: with_page_size on a stream that has a page size gives a stream with
\* the new size, no loader, no iter and both cursors as the constructor sets
\* them, so that its next poll requests the first page again; on a stream
\* without page size it gives the stream back with every field as it was.
C19_WithPageSize ==
    \A i \in Streams :
        \A n \in NewPageSizes :
            LET r == WithPageSize(iters[i], n) IN
            IF iters[i].page_size # None
            THEN /\ r = CursorIterNew(Some(n))
                 /\ PollNext(r, Len(reqs[i]), FALSE).call
                      = Some([cursor |-> -1, count |-> Some(n),
                              seq |-> Len(reqs[i]) + 1])
            ELSE r = iters[i]

\* After items of the first response were yielded the size was set, and the
\* next poll asked for the first page again, with the new size.
C19_Witness ==
    /\ iters[1].page_size = Some(20)
    /\ ~ErrSeen(outs[1])
    /\ ItemsOf(outs[1]) # <<>>
    /\ script[1].next_cursor # 0
    /\ reqs[1] = <<-1, -1>>
    /\ iters[1].loader # None /\ iters[1].loader[1].count = Some(20)

====
